---------------------------- MODULE Spec2Model ----------------------------
(***************************************************************************)
(* SOCKS5 client (src/utils.ts): readN, the address codec, the reply       *)
(* interpreter and the handshake of Client.#connectAndRequest / connect.   *)
(*                                                                         *)
(* Conventions.  A byte string (Uint8Array) is a sequence of 0..255.  A    *)
(* JavaScript string is the sequence of its code points; the alphabet of   *)
(* the model is the code points below 0x800 (UTF-8 forms of 1 and 2        *)
(* bytes).  An optional value (a key that may be absent, an argument that  *)
(* may be undefined) is a sequence of length 0 or 1.                       *)
(***************************************************************************)
EXTENDS Integers, Sequences, FiniteSets, TLC

-----------------------------------------------------------------------------
(* Protocol constants, src/utils.ts:24-51 *)

SOCKS_VERSION == 5
USERNAME_PASSWORD_AUTH_VERSION == 1

AddrType == [IPv4 |-> 1, DomainName |-> 3, IPv6 |-> 4]

AuthMethod == [NoAuth |-> 0, UsernamePassword |-> 2, NoneAcceptable |-> 255]

ReplyStatus ==
  [Success |-> 0, GeneralError |-> 1, RulesetError |-> 2,
   NetworkUnreachable |-> 3, HostUnreachable |-> 4, ConnectionRefused |-> 5,
   TTLExpired |-> 6, UnsupportedCommand |-> 7, UnsupportedAddress |-> 8]

Command == [Connect |-> 1, Bind |-> 2, UdpAssociate |-> 3]

DefaultHostname == <<49, 50, 55, 46, 48, 46, 48, 46, 49>>   \* "127.0.0.1"

-----------------------------------------------------------------------------
(* JavaScript primitives used by the codec *)

\* The value Number() and parseInt() give for text that is not a number.
NaN == -1

\* Uint8Array.from: each element is converted modulo 2^8, NaN becomes 0.
ToUint8(x) == IF x = NaN THEN 0 ELSE x % 256

Uint8ArrayFrom(xs) == [i \in 1..Len(xs) |-> ToUint8(xs[i])]

\* new Uint8Array(n): n zero bytes.
NewUint8Array(n) == [i \in 1..n |-> 0]

\* o ?? d
Coalesce(o, d) == IF o = <<>> THEN d ELSE o[1]

IsDigit(c) == c \in 48..57

IsHexDigit(c) == c \in 48..57 \/ c \in 65..70 \/ c \in 97..102

HexDigitValue(c) ==
  IF c \in 48..57 THEN c - 48
  ELSE IF c \in 65..70 THEN c - 55
  ELSE c - 87

\* Length of the longest prefix of s whose characters all satisfy the test.
RECURSIVE DigitRun(_, _)
DigitRun(s, i) ==
  IF i <= Len(s) /\ IsDigit(s[i]) THEN 1 + DigitRun(s, i + 1) ELSE 0

RECURSIVE HexRun(_, _)
HexRun(s, i) ==
  IF i <= Len(s) /\ IsHexDigit(s[i]) THEN 1 + HexRun(s, i + 1) ELSE 0

RECURSIVE DecValue(_, _)
DecValue(s, k) ==
  IF k = 0 THEN 0 ELSE DecValue(s, k - 1) * 10 + (s[k] - 48)

RECURSIVE HexValue(_, _)
HexValue(s, k) ==
  IF k = 0 THEN 0 ELSE HexValue(s, k - 1) * 16 + HexDigitValue(s[k])

\* Number(s) for text over digits, letters, '.' and ':' (no sign, blank,
\* exponent or radix prefix): the decimal value of an all-digit text, 0 for
\* the empty text, NaN otherwise.
Number(s) ==
  IF s = <<>> THEN 0
  ELSE IF DigitRun(s, 1) = Len(s) THEN DecValue(s, Len(s))
  ELSE NaN

\* parseInt(s, 16): the value of the leading hexadecimal digits, NaN if none.
ParseInt16(s) ==
  IF HexRun(s, 1) = 0 THEN NaN ELSE HexValue(s, HexRun(s, 1))

\* String(n) for a non-negative integer: its decimal digits.
RECURSIVE String(_)
String(n) ==
  IF n < 10 THEN <<48 + n>> ELSE String(n \div 10) \o <<48 + (n % 10)>>

\* s.split(sep) for a one-character separator.
RECURSIVE Split(_, _)
Split(s, sep) ==
  LET hits == {i \in 1..Len(s) : s[i] = sep} IN
  IF hits = {} THEN <<s>>
  ELSE LET i == CHOOSE j \in hits : \A k \in hits : j <= k IN
       <<SubSeq(s, 1, i - 1)>> \o Split(SubSeq(s, i + 1, Len(s)), sep)

\* parts.join(sep)
RECURSIVE Join(_, _)
Join(parts, sep) ==
  IF Len(parts) = 0 THEN <<>>
  ELSE IF Len(parts) = 1 THEN parts[1]
  ELSE parts[1] \o <<sep>> \o Join(Tail(parts), sep)

RECURSIVE Flatten(_)
Flatten(seqs) ==
  IF seqs = <<>> THEN <<>> ELSE Head(seqs) \o Flatten(Tail(seqs))

\* The UTF-8 form of one code point below 0x800.
EncodeCodePoint(c) ==
  IF c < 128 THEN <<c>> ELSE <<192 + (c \div 64), 128 + (c % 64)>>

\* new TextEncoder().encode(s): the UTF-8 forms of the code points of s, in
\* order (the text is split in halves to keep the evaluation shallow).
RECURSIVE TextEncode(_)
TextEncode(s) ==
  IF Len(s) = 0 THEN <<>>
  ELSE IF Len(s) = 1 THEN EncodeCodePoint(s[1])
  ELSE LET h == Len(s) \div 2 IN
       TextEncode(SubSeq(s, 1, h)) \o TextEncode(SubSeq(s, h + 1, Len(s)))

\* te.encode(x) where x may be undefined: the argument defaults to "".
TextEncodeOpt(o) == TextEncode(Coalesce(o, <<>>))

\* new TextDecoder().decode(b): UTF-8, not fatal.  A byte below 0x80 is itself,
\* a lead byte 0xC2..0xDF followed by a continuation byte is a two-byte form,
\* any other byte outside 0xE0..0xF4 is replaced by U+FFFD.
RECURSIVE TextDecode(_)
TextDecode(b) ==
  IF b = <<>> THEN <<>>
  ELSE IF b[1] < 128 THEN <<b[1]>> \o TextDecode(Tail(b))
  ELSE IF b[1] \in 194..223 /\ Len(b) >= 2 /\ b[2] \in 128..191
       THEN <<(b[1] - 192) * 64 + (b[2] - 128)>> \o TextDecode(SubSeq(b, 3, Len(b)))
  ELSE <<65533>> \o TextDecode(Tail(b))

-----------------------------------------------------------------------------
(* decodeError, src/utils.ts:53-74 *)

\* Mutant: the case of UnsupportedAddress is missing.
decodeError_NoUnsupportedAddress(status) ==
  CASE status = ReplyStatus.GeneralError -> "general SOCKS server failure"
    [] status = ReplyStatus.RulesetError -> "connection not allowed by ruleset"
    [] status = ReplyStatus.NetworkUnreachable -> "Network unreachable"
    [] status = ReplyStatus.HostUnreachable -> "Host unreachable"
    [] status = ReplyStatus.ConnectionRefused -> "Connection refused"
    [] status = ReplyStatus.TTLExpired -> "TTL expired"
    [] status = ReplyStatus.UnsupportedCommand -> "Command not supported"
    [] OTHER -> "unknown SOCKS error"

decodeError(status) ==
  CASE status = ReplyStatus.GeneralError -> "general SOCKS server failure"
    [] status = ReplyStatus.RulesetError -> "connection not allowed by ruleset"
    [] status = ReplyStatus.NetworkUnreachable -> "Network unreachable"
    [] status = ReplyStatus.HostUnreachable -> "Host unreachable"
    [] status = ReplyStatus.ConnectionRefused -> "Connection refused"
    [] status = ReplyStatus.TTLExpired -> "TTL expired"
    [] status = ReplyStatus.UnsupportedCommand -> "Command not supported"
    [] status = ReplyStatus.UnsupportedAddress -> "Address type not supported"
    [] OTHER -> "unknown SOCKS error"

-----------------------------------------------------------------------------
(* serializeAddress, src/utils.ts:76-105 *)

\* One "\d{1,3}\." at position i: the position after it, or 0 for no match.
\* A run of more than three digits cannot be followed by the dot.
V4Group(s, i) ==
  LET d == DigitRun(s, i) IN
  IF d \in 1..3 /\ i + d <= Len(s) /\ s[i + d] = 46 THEN i + d + 1 ELSE 0

\* v4Pattern.test(s): /^(?:\d{1,3}\.){3}\d{1,3}/, a match of a prefix.
v4Pattern(s) ==
  LET p1 == V4Group(s, 1)
      p2 == IF p1 = 0 THEN 0 ELSE V4Group(s, p1)
      p3 == IF p2 = 0 THEN 0 ELSE V4Group(s, p2)
  IN  p3 # 0 /\ DigitRun(s, p3) >= 1

\* v6Pattern.test(s): /^(?:[A-F0-9]{1,4}:){7}[A-F0-9]{1,4}$/i, the whole text:
\* eight groups of one to four hexadecimal digits between seven colons.
v6Pattern(s) ==
  LET g == Split(s, 58) IN
  /\ Len(g) = 8
  /\ \A i \in 1..8 : Len(g[i]) \in 1..4 /\ HexRun(g[i], 1) = Len(g[i])

portBytes(port) == <<port \div 256, port % 256>>

SerializeV4(hostname, port) ==
  LET g == Split(hostname, 46) IN
  Uint8ArrayFrom(<<AddrType.IPv4>> \o [i \in 1..Len(g) |-> Number(g[i])]
                 \o portBytes(port))

SerializeV6(hostname, port) ==
  LET g == Split(hostname, 58)
      pairs == [i \in 1..Len(g) |->
                  LET num == ParseInt16(g[i]) IN
                  IF num = NaN THEN <<NaN, NaN>> ELSE <<num \div 256, num % 256>>]
  IN Uint8ArrayFrom(<<AddrType.IPv6>> \o Flatten(pairs) \o portBytes(port))

SerializeDomain(hostname, port) ==
  LET bytes == TextEncode(hostname) IN
  Uint8ArrayFrom(<<AddrType.DomainName, Len(bytes)>> \o bytes \o portBytes(port))

serializeAddress(hostname, port) ==
  IF v4Pattern(hostname) THEN SerializeV4(hostname, port)
  ELSE IF v6Pattern(hostname) THEN SerializeV6(hostname, port)
  ELSE SerializeDomain(hostname, port)

-----------------------------------------------------------------------------
(* deserializeAddress, src/utils.ts:107-136: the values computed from the   *)
(* bytes each readN call returned                                           *)

\* parts.map(String).join(".") over the four bytes read
RenderV4(buff) == Join([i \in 1..Len(buff) |-> String(buff[i])], 46)

\* parts.push((buff[i] << 8) + buff[i + 1]) for i = 0, 2, ...
GroupsOf(buff) ==
  [k \in 1..(Len(buff) \div 2) |-> buff[2 * k - 1] * 256 + buff[2 * k]]

\* parts.map(String).join(":") over the eight groups
RenderV6(buff) ==
  LET parts == GroupsOf(buff) IN
  Join([i \in 1..Len(parts) |-> String(parts[i])], 58)

\* (portUpper << 8) + portLower
PortOf(buff) == buff[1] * 256 + buff[2]

-----------------------------------------------------------------------------
(* Bounds and the inputs the model draws from *)

\* Number of messages the proxy puts in flight during one call.
MaxSends == 3

Some(x) == <<x>>

None == <<>>

\* ClientConfig values handed to the constructor: without and with credentials,
\* with and without an explicit proxy port.
ClientConfigs ==
  { [hostname |-> "proxy", port |-> None, username |-> None, password |-> None],
    [hostname |-> "proxy", port |-> Some(9050),
     username |-> Some(<<117>>), password |-> Some(<<112, 119>>)] }

\* A domain name of 256 bytes: "aa...a".
LongDomain == [i \in 1..256 |-> 97]

\* Destination hostnames: IPv4, full IPv6 (lower and upper case), domain names
\* (ASCII, with a two-byte UTF-8 character, starting like an IPv4 address, and
\* longer than 255 bytes).
DestHosts ==
  { <<49, 50, 55, 46, 48, 46, 48, 46, 49>>,                    \* 127.0.0.1
    <<48, 58, 48, 58, 48, 58, 48, 58, 48, 58, 48, 58, 48, 58, 49>>,
                                                              \* 0:0:0:0:0:0:0:1
    <<50, 48, 48, 49, 58, 68, 66, 56, 58, 48, 58, 48, 58, 48, 58, 48, 58, 48,
      58, 49, 48>>,                                           \* 2001:DB8:0:0:0:0:0:10
    <<97, 98>>,                                               \* ab
    <<233, 46, 97>>,                                          \* e-acute .a
    <<49, 46, 50, 46, 51, 46, 52, 46, 97>>,                   \* 1.2.3.4.a
    LongDomain }

DestPorts == {80, 8080}

\* Deno.ConnectOptions: hostname is optional.
ConnectOptions ==
  [hostname : {None} \cup {Some(h) : h \in DestHosts}, port : DestPorts]

\* What the proxy may put on the wire at any time: replies of every phase,
\* well-formed and not, whole and cut short.
ProxyMsgs ==
  { <<5, 0>>, <<5, 2>>, <<5, 255>>, <<4, 0>>, <<4, 255>>, <<5>>,
    <<1, 0>>, <<1, 1>>,
    <<5, 0, 0>>, <<5, 5, 0>>, <<5, 8, 0>>, <<5, 9, 0>>, <<4, 5, 0>>,
    <<5, 0, 0, 1, 127, 0, 0, 1, 31, 144>>,
    <<1, 127, 0, 0, 1, 31, 144>>,
    <<3, 2, 97, 98, 0, 80>>,
    <<3, 0, 0, 80>>,
    <<4, 32, 1, 13, 184, 0, 0, 0, 0, 0, 0, 0, 0, 0, 0, 0, 16, 0, 80>>,
    <<2, 0, 0>> }

-----------------------------------------------------------------------------
(* State *)

VARIABLES
  config,              \* Client.#config
  pc,                  \* position of the connect call
  opts,                \* argument of connect
  remoteAddr,          \* connect: remoteAddr
  conn,                \* the transport connection: "none", "open", "closed"
  closeCalls,          \* number of conn.close() calls made by #connectAndRequest
  written,             \* messages written on conn by writeAll, in order
  trace,               \* handshake events completed on conn, in order
  pending,             \* bytes sent by the proxy and not yet read
  peerClosed,          \* the proxy has closed its side: EOF follows pending
  sends,               \* messages the proxy has sent
  n, nRead, out,       \* readN: its argument and locals
  delivered,           \* bytes reader.read has delivered to the current readN
  readCalls,           \* reader.read calls made by the current readN
  opens,               \* connections Deno.connect has opened for the call
  negotiationVersion, method,      \* locals of #connectAndRequest
  authVersion, authStatus,
  replyVersion, status,
  type, length, hostname,          \* locals of deserializeAddress
  bound,               \* bytes deserializeAddress has taken from the reader
  result,              \* connect's return value, None until it returns
  error,               \* the error thrown to the caller of connect
  userCloses,          \* close() calls made on the returned connection
  closeError,          \* the error the last of these close() calls raised
  cur,                 \* the connect call whose state the variables above hold
  other                \* the state of the other connect call, suspended at an await

envVars == <<pending, peerClosed, sends>>

readVars == <<n, nRead, out, delivered, readCalls>>

negVars == <<negotiationVersion, method>>

authVars == <<authVersion, authStatus>>

replyVars == <<replyVersion, status>>

addrVars == <<type, length, hostname, bound>>

callVars == <<opts, remoteAddr>>

userVars == <<userCloses, closeError>>

schedVars == <<cur, other>>

\* The state of one connect call: everything but the client's configuration.
callState ==
  <<pc, callVars, conn, opens, closeCalls, written, trace, envVars, readVars,
    negVars, authVars, replyVars, addrVars, result, error, userVars>>

vars == <<config, callState, schedVars>>

NoArg == -1

NoError == [name |-> "none", message |-> "", arg |-> NoArg]

Err(msg, arg) == [name |-> "Error", message |-> msg, arg |-> arg]

\* A local that has not been assigned yet.
Unset == -1

\* Client constructor, src/utils.ts:153-158
Construct(c) == [c EXCEPT !.port = Some(Coalesce(c.port, 1080))]

HasCredentials(cfg) == cfg.username # None

\* The state of a connect call that has not been made yet.
IdleCall ==
  [pc |-> "idle", opts |-> None, remoteAddr |-> None, conn |-> "none",
   opens |-> 0, closeCalls |-> 0, written |-> <<>>, trace |-> <<>>,
   pending |-> <<>>, peerClosed |-> FALSE, sends |-> 0,
   n |-> 0, nRead |-> 0, out |-> <<>>, delivered |-> <<>>, readCalls |-> 0,
   negotiationVersion |-> Unset, method |-> Unset,
   authVersion |-> Unset, authStatus |-> Unset,
   replyVersion |-> Unset, status |-> Unset,
   type |-> Unset, length |-> Unset, hostname |-> None, bound |-> <<>>,
   result |-> None, error |-> NoError,
   userCloses |-> 0, closeError |-> NoError]

Init ==
  /\ config \in {Construct(c) : c \in ClientConfigs}
  /\ pc = "idle"
  /\ opts = None
  /\ remoteAddr = None
  /\ conn = "none"
  /\ closeCalls = 0
  /\ written = <<>>
  /\ trace = <<>>
  /\ pending = <<>>
  /\ peerClosed = FALSE
  /\ sends = 0
  /\ n = 0 /\ nRead = 0 /\ out = <<>> /\ delivered = <<>> /\ readCalls = 0
  /\ opens = 0
  /\ negotiationVersion = Unset /\ method = Unset
  /\ authVersion = Unset /\ authStatus = Unset
  /\ replyVersion = Unset /\ status = Unset
  /\ type = Unset /\ length = Unset /\ hostname = None /\ bound = <<>>
  /\ result = None
  /\ error = NoError
  /\ userCloses = 0
  /\ closeError = NoError
  /\ cur = 1
  /\ other = IdleCall

-----------------------------------------------------------------------------
(* The transport: Deno.connect, writeAll, reader.read, and the proxy *)

\* The proxy puts one message in flight.
ProxySend ==
  /\ conn = "open"
  /\ pc \notin {"connected", "failed"}
  /\ ~peerClosed
  /\ pending = <<>>
  /\ sends < MaxSends
  /\ \E msg \in ProxyMsgs : pending' = msg
  /\ sends' = sends + 1
  /\ UNCHANGED <<config, opens, userVars, schedVars, pc, callVars, conn, closeCalls, written, trace,
                 peerClosed, readVars, negVars, authVars, replyVars, addrVars,
                 result, error>>

\* The proxy answers the command request that was written by a success reply
\* whose bound address repeats the bytes of the requested address.
ProxyEcho ==
  /\ conn = "open"
  /\ pc = "readReply"
  /\ ~peerClosed
  /\ pending = <<>>
  /\ sends < MaxSends
  /\ LET req == written[Len(written)] IN
     pending' = <<SOCKS_VERSION, ReplyStatus.Success, 0>> \o SubSeq(req, 4, Len(req))
  /\ sends' = sends + 1
  /\ UNCHANGED <<config, opens, userVars, schedVars, pc, callVars, conn, closeCalls, written, trace,
                 peerClosed, readVars, negVars, authVars, replyVars, addrVars,
                 result, error>>

\* The proxy closes its side: reads return end-of-stream once pending is drained.
ProxyClose ==
  /\ conn = "open"
  /\ pc \notin {"connected", "failed"}
  /\ ~peerClosed
  /\ peerClosed' = TRUE
  /\ UNCHANGED <<config, opens, userVars, schedVars, pc, callVars, conn, closeCalls, written, trace,
                 pending, sends, readVars, negVars, authVars, replyVars,
                 addrVars, result, error>>

-----------------------------------------------------------------------------
(* readN, src/utils.ts:3-19 *)

ReadingPcs ==
  {"readMethod", "readAuth", "readReply", "readAddrType", "readV4", "readV6",
   "readDomainLength", "readDomain", "readPort"}

\* readN is called: const out = new Uint8Array(n); let nRead = 0
StartReadN(count) ==
  /\ n' = count
  /\ nRead' = 0
  /\ out' = NewUint8Array(count)
  /\ delivered' = <<>>
  /\ readCalls' = 0

\* Mutant: read is handed the whole buffer, so each chunk lands at offset 0.
ReadInto_NoOffset(buf, offset, chunk) ==
  [i \in 1..Len(buf) |-> IF i <= Len(chunk) THEN chunk[i] ELSE buf[i]]

\* reader.read(out.subarray(nRead)) stores the chunk at offset nRead of out.
ReadInto(buf, offset, chunk) ==
  [i \in 1..Len(buf) |->
     IF i > offset /\ i <= offset + Len(chunk) THEN chunk[i - offset] ELSE buf[i]]

\* `reached EOF but we expected to read ${n - nRead} more bytes`
UnexpectedEof(count, got) ==
  [name |-> "UnexpectedEof",
   message |-> "reached EOF but we expected to read more bytes",
   arg |-> count - got]

\* One iteration of the loop: read returns m bytes, 1 <= m <= room in the buffer.
ReaderRead ==
  /\ pc \in ReadingPcs
  /\ conn = "open"
  /\ nRead < n
  /\ pending # <<>>
  /\ \E m \in 1..Len(pending) :
       /\ m <= n - nRead
       /\ out' = ReadInto(out, nRead, SubSeq(pending, 1, m))
       /\ nRead' = nRead + m
       /\ readCalls' = readCalls + 1
       /\ delivered' = delivered \o SubSeq(pending, 1, m)
       /\ pending' = SubSeq(pending, m + 1, Len(pending))
  /\ UNCHANGED <<config, opens, userVars, schedVars, pc, callVars, conn, closeCalls, written, trace,
                 peerClosed, sends, n, negVars, authVars, replyVars, addrVars,
                 result, error>>

\* Mutant: end-of-stream is taken for an empty read and the loop goes on.
ReaderEof_Continue ==
  /\ pc \in ReadingPcs
  /\ conn = "open"
  /\ nRead < n
  /\ pending = <<>>
  /\ peerClosed
  /\ readCalls' = readCalls + 1
  /\ UNCHANGED <<config, opens, userVars, schedVars, pc, callVars, conn, closeCalls, written, trace, envVars,
                 n, nRead, out, delivered, negVars, authVars, replyVars, addrVars, result, error>>

\* One iteration of the loop: read returns null.  The error leaves readN and
\* #connectAndRequest and connect without passing any handler.
ReaderEof ==
  /\ pc \in ReadingPcs
  /\ conn = "open"
  /\ nRead < n
  /\ pending = <<>>
  /\ peerClosed
  /\ error' = UnexpectedEof(n, nRead)
  /\ pc' = "failed"
  /\ readCalls' = readCalls + 1
  /\ UNCHANGED <<config, opens, userVars, schedVars, callVars, conn, closeCalls, written, trace, envVars,
                 n, nRead, out, delivered, negVars, authVars, replyVars, addrVars, result>>

-----------------------------------------------------------------------------
(* Client.connect and Client.#connectAndRequest, src/utils.ts:160-302 *)

\* try { conn.close() } catch { /* ignore */ }
CloseConn ==
  /\ conn' = "closed"
  /\ closeCalls' = closeCalls + 1

\* Mutant: a failure starts the call over with a new connection.
Throw_Retry(e) ==
  /\ error' = e
  /\ pc' = "connecting"

\* Mutant: the error is recorded but the call goes on from where it is.
Throw_Swallowed(e) ==
  /\ error' = e
  /\ pc' = pc

\* throw: the error reaches the caller of connect.
Throw(e) ==
  /\ error' = e
  /\ pc' = "failed"

\* Mutant: UsernamePassword is never offered.
Methods_NoAuthOnly(cfg) == <<AuthMethod.NoAuth>>

\* const methods = [NoAuth]; if ("username" in config) methods.push(UsernamePassword)
Methods(cfg) ==
  IF HasCredentials(cfg)
  THEN <<AuthMethod.NoAuth, AuthMethod.UsernamePassword>>
  ELSE <<AuthMethod.NoAuth>>

MethodRequest(cfg) ==
  Uint8ArrayFrom(<<SOCKS_VERSION, Len(Methods(cfg))>> \o Methods(cfg))

AuthRequest(cfg) ==
  LET username == TextEncodeOpt(cfg.username)
      password == TextEncodeOpt(cfg.password)
  IN Uint8ArrayFrom(<<USERNAME_PASSWORD_AUTH_VERSION, Len(username)>> \o username
                    \o <<Len(password)>> \o password)

CommandRequest(cmd, host, port) ==
  Uint8ArrayFrom(<<SOCKS_VERSION, cmd, 0>> \o serializeAddress(host, port))

\* Mutant: the version byte of the method reply is not checked.
MethodReplyRejected_NoVersion(version, m) == m = AuthMethod.NoneAcceptable

\* Mutant: the NoneAcceptable method is not rejected.
MethodReplyRejected_NoMethod(version, m) == version # SOCKS_VERSION

\* The check of the method-negotiation reply, lines 177-180.
MethodReplyRejected(version, m) ==
  version # SOCKS_VERSION \/ m = AuthMethod.NoneAcceptable

\* Mutant: the version byte of the authentication reply is not checked.
AuthReplyRejected_NoVersion(version, st) == st # ReplyStatus.Success

\* Mutant: the status byte of the authentication reply is not checked.
AuthReplyRejected_NoStatus(version, st) == version # USERNAME_PASSWORD_AUTH_VERSION

\* The check of the authentication reply, lines 209-212.
AuthReplyRejected(version, st) ==
  version # USERNAME_PASSWORD_AUTH_VERSION \/ st # ReplyStatus.Success

\* The check of the command reply, line 237.
CommandReplyRejected(version, st) ==
  version # SOCKS_VERSION \/ st # ReplyStatus.Success

\* connect(opts) is called: remoteAddr is built, #connectAndRequest starts and
\* awaits Deno.connect.
Connect ==
  /\ pc = "idle"
  /\ \E o \in ConnectOptions :
       /\ opts' = Some(o)
       /\ remoteAddr' = Some([hostname |-> Coalesce(o.hostname, DefaultHostname),
                              port |-> o.port, transport |-> "tcp"])
  /\ pc' = "connecting"
  /\ UNCHANGED <<config, opens, userVars, schedVars, conn, closeCalls, written, trace, envVars, readVars,
                 negVars, authVars, replyVars, addrVars, result, error>>

\* Deno.connect resolves with an open connection, or rejects.
DenoConnect ==
  /\ pc = "connecting"
  /\ \E ok \in BOOLEAN :
       IF ok
       THEN /\ conn' = "open"
            /\ opens' = opens + 1
            /\ pc' = "writeMethods"
            /\ UNCHANGED error
       ELSE /\ Throw([name |-> "ConnectionRefused", message |-> "", arg |-> NoArg])
            /\ UNCHANGED <<conn, opens>>
  /\ UNCHANGED <<config, userVars, schedVars, callVars, closeCalls, written, trace, envVars,
                 readVars, negVars, authVars, replyVars, addrVars, result>>

\* await writeAll(conn, bytes) completes and readN(conn, count) is called, or
\* writeAll rejects.
WriteThenRead(event, bytes, count, next) ==
  \E ok \in BOOLEAN :
    IF ok
    THEN /\ written' = Append(written, bytes)
         /\ trace' = Append(trace, event)
         /\ StartReadN(count)
         /\ pc' = next
         /\ UNCHANGED error
    ELSE /\ Throw([name |-> "WriteError", message |-> "", arg |-> NoArg])
         /\ UNCHANGED <<written, trace, readVars>>

\* lines 172-176
WriteMethods ==
  /\ pc = "writeMethods"
  /\ WriteThenRead("writeMethods", MethodRequest(config), 2, "readMethod")
  /\ UNCHANGED <<config, opens, userVars, schedVars, callVars, conn, closeCalls, envVars, negVars,
                 authVars, replyVars, addrVars, result>>

\* lines 176-193: readN returned the method reply
MethodReply ==
  /\ pc = "readMethod"
  /\ nRead = n
  /\ negotiationVersion' = out[1]
  /\ method' = out[2]
  /\ trace' = Append(trace, "readMethod")
  /\ IF MethodReplyRejected(out[1], out[2])
     THEN /\ CloseConn
          /\ Throw(IF out[1] # SOCKS_VERSION
                   THEN Err("unsupported SOCKS version number", out[1])
                   ELSE Err("no acceptable authentication methods", NoArg))
     ELSE /\ pc' = IF out[2] = AuthMethod.UsernamePassword
                   THEN "writeAuth" ELSE "writeRequest"
          /\ UNCHANGED <<conn, closeCalls, error>>
  /\ UNCHANGED <<config, opens, userVars, schedVars, callVars, written, envVars, readVars, authVars,
                 replyVars, addrVars, result>>

\* lines 194-208
WriteAuth ==
  /\ pc = "writeAuth"
  /\ WriteThenRead("writeAuth", AuthRequest(config), 2, "readAuth")
  /\ UNCHANGED <<config, opens, userVars, schedVars, callVars, conn, closeCalls, envVars, negVars,
                 authVars, replyVars, addrVars, result>>

\* lines 208-224: readN returned the authentication reply
AuthReply ==
  /\ pc = "readAuth"
  /\ nRead = n
  /\ authVersion' = out[1]
  /\ authStatus' = out[2]
  /\ trace' = Append(trace, "readAuth")
  /\ IF AuthReplyRejected(out[1], out[2])
     THEN /\ CloseConn
          /\ Throw(IF out[1] # USERNAME_PASSWORD_AUTH_VERSION
                   THEN Err("unsupported authentication version number", out[1])
                   ELSE Err("authentication failed", NoArg))
     ELSE /\ pc' = "writeRequest"
          /\ UNCHANGED <<conn, closeCalls, error>>
  /\ UNCHANGED <<config, opens, userVars, schedVars, callVars, written, envVars, readVars, negVars,
                 replyVars, addrVars, result>>

\* lines 227-236; connect passes Command.Connect and remoteAddr
WriteRequest ==
  /\ pc = "writeRequest"
  /\ WriteThenRead("writeRequest",
                   CommandRequest(Command.Connect, remoteAddr[1].hostname,
                                  remoteAddr[1].port),
                   3, "readReply")
  /\ UNCHANGED <<config, opens, userVars, schedVars, callVars, conn, closeCalls, envVars, negVars,
                 authVars, replyVars, addrVars, result>>

\* lines 236-252 and 108: readN returned the reply header; on success
\* deserializeAddress starts with readN(r, 1)
CommandReply ==
  /\ pc = "readReply"
  /\ nRead = n
  /\ replyVersion' = out[1]
  /\ status' = out[2]
  /\ trace' = Append(trace, "readReply")
  /\ IF CommandReplyRejected(out[1], out[2])
     THEN /\ CloseConn
          /\ Throw(IF out[1] # SOCKS_VERSION
                   THEN Err("unsupported SOCKS version number", out[1])
                   ELSE Err(decodeError(out[2]), NoArg))
          /\ UNCHANGED readVars
     ELSE /\ StartReadN(1)
          /\ pc' = "readAddrType"
          /\ UNCHANGED <<conn, closeCalls, error>>
  /\ UNCHANGED <<config, opens, userVars, schedVars, callVars, written, envVars, negVars, authVars,
                 addrVars, result>>

-----------------------------------------------------------------------------
(* deserializeAddress as run by #connectAndRequest, src/utils.ts:107-136 *)

\* Mutant: a type byte that is neither IPv4 nor IPv6 is taken as DomainName.
AddrTypeRead_DefaultDomain ==
  /\ pc = "readAddrType"
  /\ nRead = n
  /\ bound' = bound \o out
  /\ type' = out[1]
  /\ IF out[1] = AddrType.IPv4
     THEN StartReadN(4) /\ pc' = "readV4" /\ UNCHANGED error
     ELSE IF out[1] = AddrType.IPv6
     THEN StartReadN(16) /\ pc' = "readV6" /\ UNCHANGED error
     ELSE StartReadN(1) /\ pc' = "readDomainLength" /\ UNCHANGED error
  /\ UNCHANGED <<config, opens, userVars, schedVars, callVars, conn, closeCalls, written, trace, envVars,
                 negVars, authVars, replyVars, length, hostname, result>>

\* lines 108-130: readN returned the type byte
AddrTypeRead ==
  /\ pc = "readAddrType"
  /\ nRead = n
  /\ bound' = bound \o out
  /\ type' = out[1]
  /\ IF out[1] = AddrType.IPv4
     THEN StartReadN(4) /\ pc' = "readV4" /\ UNCHANGED error
     ELSE IF out[1] = AddrType.IPv6
     THEN StartReadN(16) /\ pc' = "readV6" /\ UNCHANGED error
     ELSE IF out[1] = AddrType.DomainName
     THEN StartReadN(1) /\ pc' = "readDomainLength" /\ UNCHANGED error
     ELSE Throw(Err("unexpected address type", out[1])) /\ UNCHANGED readVars
  /\ UNCHANGED <<config, opens, userVars, schedVars, callVars, conn, closeCalls, written, trace, envVars,
                 negVars, authVars, replyVars, length, hostname, result>>

\* lines 111-112 and 133
V4Read ==
  /\ pc = "readV4"
  /\ nRead = n
  /\ bound' = bound \o out
  /\ hostname' = Some([value |-> RenderV4(out), length |-> 4])
  /\ StartReadN(2)
  /\ pc' = "readPort"
  /\ UNCHANGED <<config, opens, userVars, schedVars, callVars, conn, closeCalls, written, trace, envVars,
                 negVars, authVars, replyVars, type, length, result, error>>

\* lines 115-120 and 133
V6Read ==
  /\ pc = "readV6"
  /\ nRead = n
  /\ bound' = bound \o out
  /\ hostname' = Some([value |-> RenderV6(out), length |-> 16])
  /\ StartReadN(2)
  /\ pc' = "readPort"
  /\ UNCHANGED <<config, opens, userVars, schedVars, callVars, conn, closeCalls, written, trace, envVars,
                 negVars, authVars, replyVars, type, length, result, error>>

\* lines 123-125: the length byte, then readN(r, length)
DomainLengthRead ==
  /\ pc = "readDomainLength"
  /\ nRead = n
  /\ bound' = bound \o out
  /\ length' = out[1]
  /\ StartReadN(out[1])
  /\ pc' = "readDomain"
  /\ UNCHANGED <<config, opens, userVars, schedVars, callVars, conn, closeCalls, written, trace, envVars,
                 negVars, authVars, replyVars, type, hostname, result, error>>

\* lines 124-127 and 133
DomainRead ==
  /\ pc = "readDomain"
  /\ nRead = n
  /\ bound' = bound \o out
  /\ hostname' = Some([value |-> TextDecode(out), length |-> length + 1])
  /\ StartReadN(2)
  /\ pc' = "readPort"
  /\ UNCHANGED <<config, opens, userVars, schedVars, callVars, conn, closeCalls, written, trace, envVars,
                 negVars, authVars, replyVars, type, length, result, error>>

\* Mutant: the two addresses of the returned object are exchanged.
Wrap_Swapped(host, port, remote) ==
  [localAddr |-> remote,
   remoteAddr |-> [hostname |-> host, port |-> port, transport |-> "tcp"]]

\* connect's localAddr and the object it returns, lines 263-301
Wrap(host, port, remote) ==
  [localAddr |-> [hostname |-> host, port |-> port, transport |-> "tcp"],
   remoteAddr |-> remote]

\* lines 133-135, 250-253, 263-301: the port is read, deserializeAddress and
\* #connectAndRequest return, connect wraps the connection and returns
PortRead ==
  /\ pc = "readPort"
  /\ nRead = n
  /\ bound' = bound \o out
  /\ result' = Some(Wrap(hostname[1].value, PortOf(out), remoteAddr[1]))
  /\ trace' = Append(trace, "readAddr")
  /\ pc' = "connected"
  /\ UNCHANGED <<config, opens, userVars, schedVars, callVars, conn, closeCalls, written, envVars,
                 readVars, negVars, authVars, replyVars, type, length, hostname,
                 error>>

\* Number of close() calls the caller makes on the returned connection.
MaxCloses == 2

\* What conn.close() of the runtime raises for a connection that is closed.
BadResource == [name |-> "BadResource", message |-> "Bad resource ID", arg |-> NoArg]

\* close: conn.close.bind(conn), line 298: the caller closes the returned
\* connection.  The call goes to the transport's close unguarded; on a
\* connection that is already closed the runtime either raises BadResource or
\* does nothing.
WrapperClose ==
  /\ pc = "connected"
  /\ userCloses < MaxCloses
  /\ userCloses' = userCloses + 1
  /\ IF conn = "open"
     THEN conn' = "closed" /\ closeError' = NoError
     ELSE /\ \E raises \in BOOLEAN :
               closeError' = IF raises THEN BadResource ELSE NoError
          /\ UNCHANGED conn
  /\ UNCHANGED <<config, opens, schedVars, pc, callVars, closeCalls, written,
                 trace, envVars, readVars, negVars, authVars, replyVars,
                 addrVars, result, error>>

-----------------------------------------------------------------------------

Next ==
  \/ Connect
  \/ DenoConnect
  \/ WriteMethods
  \/ MethodReply
  \/ WriteAuth
  \/ AuthReply
  \/ WriteRequest
  \/ CommandReply
  \/ AddrTypeRead
  \/ V4Read
  \/ V6Read
  \/ DomainLengthRead
  \/ DomainRead
  \/ PortRead
  \/ ReaderRead
  \/ ReaderEof
  \/ ProxySend
  \/ ProxyEcho
  \/ ProxyClose
  \/ WrapperClose

Spec == Init /\ [][Next]_vars

\* Every await of the call resumes: a read returns bytes or end-of-stream, a
\* write completes, Deno.connect settles.  The proxy, too, goes on until it has
\* sent its last message and closed.
FairSpec == Spec /\ WF_vars(Next)

-----------------------------------------------------------------------------
(* Two connect calls on one client, src/utils.ts:150-302 *)

\* Everything a connect call holds is local to it: the arguments and locals
\* of connect, #connectAndRequest, deserializeAddress and readN, the
\* connection Deno.connect made for it, and the wrapper it returns.  The
\* client's only field, #config, is not assigned after the constructor.
CallRecord ==
  [pc |-> pc,
   opts |-> opts,
   remoteAddr |-> remoteAddr,
   conn |-> conn,
   opens |-> opens,
   closeCalls |-> closeCalls,
   written |-> written,
   trace |-> trace,
   pending |-> pending,
   peerClosed |-> peerClosed,
   sends |-> sends,
   n |-> n,
   nRead |-> nRead,
   out |-> out,
   delivered |-> delivered,
   readCalls |-> readCalls,
   negotiationVersion |-> negotiationVersion,
   method |-> method,
   authVersion |-> authVersion,
   authStatus |-> authStatus,
   replyVersion |-> replyVersion,
   status |-> status,
   type |-> type,
   length |-> length,
   hostname |-> hostname,
   bound |-> bound,
   result |-> result,
   error |-> error,
   userCloses |-> userCloses,
   closeError |-> closeError]

\* Mutant: readN's buffer and offset belong to the client, not to the call.
Resume_SharedBuffer(call) ==
  /\ pc' = call.pc
  /\ opts' = call.opts
  /\ remoteAddr' = call.remoteAddr
  /\ conn' = call.conn
  /\ opens' = call.opens
  /\ closeCalls' = call.closeCalls
  /\ written' = call.written
  /\ trace' = call.trace
  /\ pending' = call.pending
  /\ peerClosed' = call.peerClosed
  /\ sends' = call.sends
  /\ n' = call.n
  /\ nRead' = nRead
  /\ out' = out
  /\ delivered' = call.delivered
  /\ readCalls' = call.readCalls
  /\ negotiationVersion' = call.negotiationVersion
  /\ method' = call.method
  /\ authVersion' = call.authVersion
  /\ authStatus' = call.authStatus
  /\ replyVersion' = call.replyVersion
  /\ status' = call.status
  /\ type' = call.type
  /\ length' = call.length
  /\ hostname' = call.hostname
  /\ bound' = call.bound
  /\ result' = call.result
  /\ error' = call.error
  /\ userCloses' = call.userCloses
  /\ closeError' = call.closeError

\* The event loop resumes a call: its locals are what they were when it was
\* suspended.
Resume(call) ==
  /\ pc' = call.pc
  /\ opts' = call.opts
  /\ remoteAddr' = call.remoteAddr
  /\ conn' = call.conn
  /\ opens' = call.opens
  /\ closeCalls' = call.closeCalls
  /\ written' = call.written
  /\ trace' = call.trace
  /\ pending' = call.pending
  /\ peerClosed' = call.peerClosed
  /\ sends' = call.sends
  /\ n' = call.n
  /\ nRead' = call.nRead
  /\ out' = call.out
  /\ delivered' = call.delivered
  /\ readCalls' = call.readCalls
  /\ negotiationVersion' = call.negotiationVersion
  /\ method' = call.method
  /\ authVersion' = call.authVersion
  /\ authStatus' = call.authStatus
  /\ replyVersion' = call.replyVersion
  /\ status' = call.status
  /\ type' = call.type
  /\ length' = call.length
  /\ hostname' = call.hostname
  /\ bound' = call.bound
  /\ result' = call.result
  /\ error' = call.error
  /\ userCloses' = call.userCloses
  /\ closeError' = call.closeError

\* The event loop leaves the running call at an await, or after it has ended
\* or before it has begun, and runs the other call.
Switch ==
  /\ cur' = 3 - cur
  /\ other' = CallRecord
  /\ Resume(other)
  /\ UNCHANGED config

\* Messages the proxy sends in the runs of two calls.
ConcSends == 2

\* What the two calls are asked to connect to.
ConcOptions(c) ==
  IF c = 1
  THEN { [hostname |-> Some(<<49, 50, 55, 46, 48, 46, 48, 46, 49>>), port |-> 80],
         [hostname |-> Some(<<48, 58, 48, 58, 48, 58, 48, 58, 48, 58, 48, 58,
                              48, 58, 49>>), port |-> 80] }
  ELSE { [hostname |-> Some(<<97, 98>>), port |-> 8080] }

\* What the proxy sends besides the echoed success reply: each of them is
\* accepted in one phase and rejected in the others.
ConcMsgs == { <<5, 0>>, <<5, 2>>, <<1, 0>> }

\* close() calls the caller makes on a returned connection.
ConcCloses == 1

NextConc ==
  \/ Connect /\ opts' \in {Some(o) : o \in ConcOptions(cur)}
  \/ DenoConnect
  \/ WriteMethods
  \/ MethodReply
  \/ WriteAuth
  \/ AuthReply
  \/ WriteRequest
  \/ CommandReply
  \/ AddrTypeRead
  \/ V4Read
  \/ V6Read
  \/ DomainLengthRead
  \/ DomainRead
  \/ PortRead
  \/ ReaderRead
  \/ ReaderEof
  \/ ProxySend /\ sends < ConcSends /\ pending' \in ConcMsgs
  \/ ProxyEcho /\ sends < ConcSends
  \/ ProxyClose /\ pending = <<>> /\ pc \in ReadingPcs
  \/ WrapperClose /\ userCloses < ConcCloses
  \/ Switch

SpecConc == Init /\ [][NextConc]_vars

TypeOK ==
  /\ pc \in {"idle", "connecting", "writeMethods", "writeAuth", "writeRequest",
             "connected", "failed"} \cup ReadingPcs
  /\ conn \in {"none", "open", "closed"}
  /\ Len(out) = n
  /\ nRead \in 0..n
  /\ \A i \in 1..Len(out) : out[i] \in 0..255
  /\ \A i \in 1..Len(written) : \A j \in 1..Len(written[i]) : written[i][j] \in 0..255

-----------------------------------------------------------------------------
(* Properties *)

InTrace(e) == \E i \in 1..Len(trace) : trace[i] = e

IsPrefix(a, b) == Len(a) <= Len(b) /\ SubSeq(b, 1, Len(a)) = a

Last(q) == q[Len(q)]

Failed == pc = "failed"

\* C1: whenever a connect call fails after the transport connection was
\* opened, whatever the cause, the connection has been closed when the error
\* reaches the caller.
C1_FailureClosesConn == (Failed /\ conn # "none") => conn = "closed"

\* The handshake events of a call with and without the authentication phase.
OrderWithAuth ==
  <<"writeMethods", "readMethod", "writeAuth", "readAuth", "writeRequest",
    "readReply", "readAddr">>

OrderWithoutAuth ==
  <<"writeMethods", "readMethod", "writeRequest", "readReply", "readAddr">>

WriteEvents == {"writeMethods", "writeAuth", "writeRequest"}

\* C2: the handshake events of a call occur in the fixed order (method request,
\* method reply, authentication request and reply only if authentication is
\* entered, command request, reply header, bound address); a phase's reads are
\* made only after its write, a later phase's write only after the previous
\* reply was read and passed its check; nothing is skipped or repeated.
C2_HandshakeOrder ==
  /\ IsPrefix(trace, OrderWithAuth) \/ IsPrefix(trace, OrderWithoutAuth)
  /\ Len(written) = Cardinality({i \in 1..Len(trace) : trace[i] \in WriteEvents})
  /\ pc = "readMethod" => Last(trace) = "writeMethods"
  /\ pc = "readAuth" => Last(trace) = "writeAuth"
  /\ pc = "readReply" => Last(trace) = "writeRequest"
  /\ pc \in {"readAddrType", "readV4", "readV6", "readDomainLength",
             "readDomain", "readPort"} => Last(trace) = "readReply"
  /\ InTrace("writeAuth") =>
       /\ trace[2] = "readMethod"
       /\ negotiationVersion = 5 /\ method = 2
  /\ InTrace("writeRequest") =>
       /\ negotiationVersion = 5 /\ method # 255
       /\ InTrace("writeAuth") => authVersion = 1 /\ authStatus = 0
  /\ (InTrace("readAddr") \/ bound # <<>>) => replyVersion = 5 /\ status = 0

\* C2 witness: a call that went through every phase, authentication included.
C2_Witness == pc = "connected" /\ trace = OrderWithAuth

\* C3: a method reply [5, 0xFF] makes connect fail with "no acceptable
\* authentication methods", with or without credentials; the connection is
\* closed and neither an authentication message nor a command request is
\* written.
C3_NoneAcceptable ==
  (negotiationVersion = 5 /\ method = 255) =>
    /\ Failed
    /\ error = [name |-> "Error",
                message |-> "no acceptable authentication methods", arg |-> -1]
    /\ conn = "closed"
    /\ Len(written) = 1
    /\ ~InTrace("writeAuth") /\ ~InTrace("writeRequest")

\* C3 witness: the reply [5, 0xFF] was read by a client that has credentials.
C3_Witness ==
  negotiationVersion = 5 /\ method = 255 /\ config.username # <<>> /\ Failed

\* C4: in each phase a reply whose first byte is not the expected version (5 for
\* the method and command replies, 1 for the authentication reply) makes
\* connect fail with a version-mismatch error, whatever the other bytes are;
\* the connection is closed and no message of a later phase is written.
C4_VersionMismatch ==
  /\ negotiationVersion \notin {Unset, 5} =>
       /\ Failed /\ conn = "closed"
       /\ error = [name |-> "Error", message |-> "unsupported SOCKS version number",
                   arg |-> negotiationVersion]
       /\ Len(written) = 1 /\ trace = <<"writeMethods", "readMethod">>
  /\ authVersion \notin {Unset, 1} =>
       /\ Failed /\ conn = "closed"
       /\ error = [name |-> "Error",
                   message |-> "unsupported authentication version number",
                   arg |-> authVersion]
       /\ Len(written) = 2 /\ Last(trace) = "readAuth"
  /\ replyVersion \notin {Unset, 5} =>
       /\ Failed /\ conn = "closed"
       /\ error = [name |-> "Error", message |-> "unsupported SOCKS version number",
                   arg |-> replyVersion]
       /\ Last(trace) = "readReply" /\ bound = <<>>

\* C4 witness: an authentication reply with a wrong version and a success status.
C4_Witness == authVersion = 5 /\ authStatus = 0 /\ Failed

\* C5: when every reply passes its check and a well-formed bound address
\* follows, connect succeeds: the returned connection's local address is the
\* host and port decoded from the bound address the proxy sent, its remote
\* address is the destination the caller asked for, and the transport
\* connection is still open when connect returns (it stays open until the
\* caller closes it).
C5_Success ==
  /\ pc = "connected" =>
       /\ userCloses = 0 => conn = "open"
       /\ closeCalls = 0 /\ error.name = "none"
       /\ Len(result) = 1
       /\ result[1].remoteAddr =
            [hostname |-> IF opts[1].hostname = <<>>
                          THEN <<49, 50, 55, 46, 48, 46, 48, 46, 49>>
                          ELSE opts[1].hostname[1],
             port |-> opts[1].port, transport |-> "tcp"]
       /\ result[1].localAddr.transport = "tcp"
       /\ result[1].localAddr.port = bound[Len(bound) - 1] * 256 + bound[Len(bound)]
       /\ result[1].localAddr.hostname = hostname[1].value
       /\ bound[1] \in {1, 3, 4}
       /\ bound[1] = 1 =>
            /\ Len(bound) = 7
            /\ result[1].localAddr.hostname =
                 String(bound[2]) \o <<46>> \o String(bound[3]) \o <<46>>
                 \o String(bound[4]) \o <<46>> \o String(bound[5])
       /\ bound[1] = 3 =>
            /\ Len(bound) = bound[2] + 4
            /\ result[1].localAddr.hostname = TextDecode(SubSeq(bound, 3, bound[2] + 2))
       /\ bound[1] = 4 => Len(bound) = 19
       /\ bound = <<1, 127, 0, 0, 1, 31, 144>> =>
            result[1].localAddr =
              [hostname |-> <<49, 50, 55, 46, 48, 46, 48, 46, 49>>, port |-> 8080,
               transport |-> "tcp"]
  /\ (Failed /\ error.name = "Error") =>
       \/ negotiationVersion # 5 \/ method = 255
       \/ authVersion # Unset /\ (authVersion # 1 \/ authStatus # 0)
       \/ replyVersion # Unset /\ (replyVersion # 5 \/ status # 0)
       \/ type # Unset /\ type \notin {1, 3, 4}
  /\ pc # "connected" => result = <<>>

\* C5 witness: credentials, replies [5,2], [1,0] and
\* [5,0,0,1,127,0,0,1,0x1F,0x90]: connect returned with 127.0.0.1:8080.
C5_Witness ==
  /\ pc = "connected"
  /\ config.username # <<>>
  /\ method = 2 /\ authVersion = 1 /\ authStatus = 0
  /\ bound = <<1, 127, 0, 0, 1, 31, 144>>
  /\ result[1].localAddr.port = 8080

\* C6: the authentication exchange is entered if and only if the method the
\* proxy chose is UsernamePassword (2); once entered, an authentication reply
\* with version # 1 or status # 0 makes the call fail ("authentication failed"
\* when the version is 1), the connection is closed and the command request is
\* never written.
C6_Authentication ==
  /\ (pc = "writeAuth" \/ InTrace("writeAuth")) => negotiationVersion = 5 /\ method = 2
  /\ (pc = "writeRequest" \/ InTrace("writeRequest")) =>
       (InTrace("writeAuth") <=> method = 2)
  /\ (negotiationVersion = 5 /\ method = 2) =>
       \/ pc = "writeAuth"
       \/ InTrace("writeAuth")
       \/ Failed /\ error.name = "WriteError" /\ Len(written) = 1
  /\ (authVersion # Unset /\ (authVersion # 1 \/ authStatus # 0)) =>
       /\ Failed
       /\ conn = "closed"
       /\ ~InTrace("writeRequest") /\ Len(written) = 2
       /\ authVersion = 1 =>
            error = [name |-> "Error", message |-> "authentication failed",
                     arg |-> -1]

\* C6 witness: the authentication reply [1, 1] was read.
C6_Witness == authVersion = 1 /\ authStatus = 1 /\ Failed

\* C7: the first message written on a new connection is [5, 1, 0] without
\* credentials and [5, 2, 0, 2] with credentials.
C7_MethodRequest ==
  written # <<>> =>
    written[1] = IF config.username # <<>> THEN <<5, 2, 0, 2>> ELSE <<5, 1, 0>>

\* C7 witness: a client with credentials has written its first message.
C7_Witness == written # <<>> /\ written[1] = <<5, 2, 0, 2>>

\* The messages of the eight reply statuses 1..8.
ReplyMessages ==
  <<"general SOCKS server failure", "connection not allowed by ruleset",
    "Network unreachable", "Host unreachable", "Connection refused",
    "TTL expired", "Command not supported", "Address type not supported">>

ReplyMessage(s) == IF s \in 1..8 THEN ReplyMessages[s] ELSE "unknown SOCKS error"

\* C8: a command reply with version 5 and a non-zero status s makes connect
\* fail with the message the reply interpreter gives for s, and the connection
\* is closed; the interpreter is total, maps 1..8 to eight distinct messages
\* (5 to "Connection refused", 8 to "Address type not supported") and every
\* other value to "unknown SOCKS error".
C8_ReplyStatus ==
  /\ (replyVersion = 5 /\ status \notin {Unset, 0}) =>
       /\ Failed
       /\ conn = "closed"
       /\ error = [name |-> "Error", message |-> ReplyMessage(status), arg |-> -1]
  /\ pc = "idle" =>
       /\ \A s \in 0..255 : decodeError(s) = ReplyMessage(s)
       /\ Cardinality({decodeError(s) : s \in 1..8}) = 8
       /\ decodeError(5) = "Connection refused"
       /\ decodeError(8) = "Address type not supported"

\* C8 witness: the reply [5, 8, 0] was read.
C8_Witness ==
  replyVersion = 5 /\ status = 8 /\ error.message = "Address type not supported"

\* C9: readN returns exactly N bytes, the first N bytes the stream delivered,
\* in order, however the stream splits them into reads; at end-of-stream after
\* k < N bytes it fails with an unexpected-EOF error reporting N - k.
C9_ReadN ==
  /\ Len(out) = n
  /\ nRead = Len(delivered)
  /\ nRead <= n
  /\ \A i \in 1..n : out[i] = IF i <= nRead THEN delivered[i] ELSE 0
  /\ error.name = "UnexpectedEof" =>
       /\ Failed
       /\ Len(delivered) < n
       /\ error.arg = n - Len(delivered)

\* C9 witness: end-of-stream after 1 of the 2 bytes of the method reply.
C9_Witness ==
  /\ error.name = "UnexpectedEof"
  /\ trace = <<"writeMethods">>
  /\ n = 2 /\ Len(delivered) = 1 /\ error.arg = 1

\* The eight group values an IPv6 text denotes.
GroupValues(h) ==
  LET g == Split(h, 58) IN [i \in 1..Len(g) |-> ParseInt16(g[i])]

\* C10: decoding the bytes produced by encoding (host, port) yields the same
\* port and the same host (for IPv6, the same eight group values), for valid
\* IPv4 addresses, full IPv6 addresses and domain names of at most 255 bytes.
C10_RoundTrip ==
  (pc = "connected"
   /\ bound = serializeAddress(remoteAddr[1].hostname, remoteAddr[1].port)) =>
    /\ result[1].localAddr.port = remoteAddr[1].port
    /\ IF v6Pattern(remoteAddr[1].hostname)
       THEN GroupValues(result[1].localAddr.hostname)
              = GroupValues(remoteAddr[1].hostname)
       ELSE result[1].localAddr.hostname = remoteAddr[1].hostname

\* C11: encoding a destination whose hostname is a domain name longer than 255
\* UTF-8 bytes fails: no command request carrying such a name is ever written.
C11_LongDomainRejected ==
  InTrace("writeRequest") =>
    \/ v4Pattern(remoteAddr[1].hostname)
    \/ v6Pattern(remoteAddr[1].hostname)
    \/ Len(TextEncode(remoteAddr[1].hostname)) <= 255

\* C13: closing the connection returned by a successful connect twice does
\* not raise: the second close is a no-op.
C13_DoubleCloseNoRaise == userCloses >= 2 => closeError.name = "none"

\* The command request that was written, and the address bytes it carries.
LastRequest == written[Len(written)]

RequestAddress == SubSeq(LastRequest, 4, Len(LastRequest))

\* C14: for every hostname the encoder classifies as IPv4 the encoded address
\* is exactly 7 bytes: the IPv4 type byte, four octets equal to the four dotted
\* groups, and the two big-endian port bytes.
C14_IPv4SevenBytes ==
  (InTrace("writeRequest") /\ v4Pattern(remoteAddr[1].hostname)) =>
    LET g == Split(remoteAddr[1].hostname, 46) IN
    /\ Len(RequestAddress) = 7
    /\ RequestAddress[1] = 1
    /\ \A i \in 1..4 : RequestAddress[i + 1] = Number(g[i])
    /\ RequestAddress[6] = remoteAddr[1].port \div 256
    /\ RequestAddress[7] = remoteAddr[1].port % 256

\* C15: decoding an IPv6 wire address renders the eight big-endian 16-bit
\* groups in hexadecimal, joined by colons, without zero compression: the text
\* denotes the eight group values that were on the wire.
C15_HexGroups ==
  (type = 4 /\ hostname # <<>>) =>
    /\ Len(Split(hostname[1].value, 58)) = 8
    /\ GroupValues(hostname[1].value)
         = [k \in 1..8 |-> bound[2 * k] * 256 + bound[2 * k + 1]]

\* C16: when the type byte of the bound address is not 1, 3 or 4, decoding
\* fails with "unexpected address type" carrying that byte, no further byte is
\* read from the stream, and connect returns no connection.
C16_UnknownAddrType ==
  type \notin {Unset, 1, 3, 4} =>
    /\ Failed
    /\ error = [name |-> "Error", message |-> "unexpected address type",
                arg |-> type]
    /\ bound = <<type>>
    /\ n = 1 /\ nRead = 1 /\ delivered = <<type>>
    /\ hostname = <<>> /\ length = Unset
    /\ result = <<>>
    /\ ~InTrace("readAddr")

\* C16 witness: the proxy's bound address began with the type byte 2.
C16_Witness == type = 2 /\ Failed /\ replyVersion = 5 /\ status = 0

Occurrences(e) == Cardinality({i \in 1..Len(trace) : trace[i] = e})

\* C17: no retry: a call opens one transport connection and writes each
\* handshake message at most once; once a check or an I/O operation has failed
\* nothing more is written to or read from the connection.
C17_NoRetry ==
  [][/\ opens' <= 1
     /\ \A e \in WriteEvents : Occurrences(e)' <= 1
     /\ Len(written') <= 3
     /\ Failed =>
          /\ Failed'
          /\ written' = written
          /\ trace' = trace
          /\ readCalls' = readCalls
          /\ pending' = pending
          /\ <<n, nRead, out, delivered>>' = <<n, nRead, out, delivered>>
          /\ opens' = opens]_vars

\* C17 witness: the call failed on the command reply, after all three writes.
C17_Witness == Failed /\ Len(written) = 3 /\ opens = 1 /\ error.name = "Error"

\* The methods the client listed in its method-negotiation request.
Offered == {written[1][i] : i \in 3..Len(written[1])}

\* C18 as claimed: the authentication message and the command request are
\* written only if the method the proxy chose is one the client offered.
C18_OnlyOfferedMethods ==
  (InTrace("writeAuth") \/ InTrace("writeRequest")) => method \in Offered

\* C18 as amended: the command request is written only if the method reply had
\* version 5 and a method other than NoneAcceptable (0xFF), and, when that
\* method is UsernamePassword (2), the authentication reply was [1, 0]; the
\* method need not be one the client offered.
C18_OnlyAcceptedReply ==
  /\ InTrace("writeAuth") => negotiationVersion = 5 /\ method = 2
  /\ InTrace("writeRequest") =>
       /\ negotiationVersion = 5
       /\ method # 255
       /\ method = 2 => InTrace("writeAuth") /\ authVersion = 1 /\ authStatus = 0
       /\ method # 2 => ~InTrace("writeAuth")

\* C18 witness: without credentials the proxy chose UsernamePassword, and the
\* authentication message with empty credentials and the command request
\* were written.
C18_Witness ==
  /\ config.username = <<>>
  /\ method = 2
  /\ Len(written) = 3
  /\ written[2] = <<1, 0, 0>>
  /\ InTrace("writeRequest")

\* C19: the protocol layer calls close on a call's connection at most once and
\* never on a call that succeeds: no connection is both closed by the protocol
\* layer and handed to the caller.
C19_CloseOrHandOver ==
  /\ closeCalls <= 1
  /\ ~(closeCalls > 0 /\ (result # <<>> \/ pc = "connected"))
  /\ closeCalls = 1 => Failed /\ conn = "closed"

\* C19 witness: a call whose reply check failed and whose connection was closed.
C19_Witness == closeCalls = 1 /\ Failed /\ conn = "closed"

\* C20: when every read returns end-of-stream or at least one byte and every
\* write completes, readN(n) makes at most n read calls, and the connect call
\* eventually ends, with a connection returned or an error raised.
C20_Termination ==
  /\ [](readCalls <= n)
  /\ <>(pc \in {"connected", "failed"})

\* C20 witness: a readN that needed all its n >= 2 read calls, the last of
\* them returning end-of-stream, in a call that has ended.
C20_Witness ==
  /\ pc = "failed"
  /\ error.name = "UnexpectedEof"
  /\ n >= 2
  /\ readCalls = n

\* The message a call writes at a write event, from the client's
\* configuration and the call's own argument.
ExpectedMessage(c, e) ==
  CASE e = "writeMethods" -> MethodRequest(config)
    [] e = "writeAuth" -> AuthRequest(config)
    [] e = "writeRequest" ->
         CommandRequest(Command.Connect,
                        Coalesce(c.opts[1].hostname, DefaultHostname),
                        c.opts[1].port)

\* What call c returned is made of its own argument and of the bound address
\* that came on its own connection, which repeats its own request.
ReturnedAlone(c) ==
  c.result # None =>
    /\ c.bound = serializeAddress(Coalesce(c.opts[1].hostname, DefaultHostname),
                                  c.opts[1].port)
    /\ c.result[1] =
         Wrap(c.hostname[1].value,
              PortOf(SubSeq(c.bound, Len(c.bound) - 1, Len(c.bound))),
              [hostname |-> Coalesce(c.opts[1].hostname, DefaultHostname),
               port |-> c.opts[1].port, transport |-> "tcp"])

\* C12: two connect calls on one client are independent under every
\* interleaving of their steps.  A step of the running call is a step that
\* call can take alone and leaves the suspended call as it was; suspending and
\* resuming changes neither call; so each call writes to and reads from its
\* own connection only, what it sends follows from its own argument, and what
\* it returns from its own argument and its own connection's bytes.
C12_Independent ==
  /\ [](ReturnedAlone(CallRecord) /\ ReturnedAlone(other))
  /\ [][IF cur' # cur
        THEN CallRecord' = other /\ other' = CallRecord /\ config' = config
        ELSE /\ other' = other
             /\ Next
             /\ written' # written =>
                  written' = Append(written, ExpectedMessage(CallRecord, Last(trace')))]_vars

\* C12 witness: both calls are suspended in the middle of the handshake, each
\* with its own request written and its own reply bytes in flight.
C12_Witness ==
  /\ pc = "readReply" /\ other.pc = "readReply"
  /\ written # other.written
  /\ pending # <<>> /\ other.pending # <<>>
  /\ nRead > 0 /\ other.nRead > 0 /\ out # other.out

=============================================================================
